---- MODULE Spec2Model ----
(***************************************************************************)
(* Value-target computation of torchrl/objectives:                         *)
(*   - DistributionalDQNLoss.forward (dqn.py): double-estimator selection  *)
(*     and the categorical projection of the Bellman-shifted support;      *)
(*   - the value estimators TD0Estimator, TD1Estimator, TDLambdaEstimator  *)
(*     and GAE (value/advantages.py).                                      *)
(* Real numbers are exact rationals <<numerator, denominator>>; floating   *)
(* point values that may be non-finite carry a kind (fin, pinf, ninf, nan).*)
(***************************************************************************)
EXTENDS Integers, Sequences, FiniteSets, TLC

(***************************************************************************)
(* Bounds of the model.                                                    *)
(***************************************************************************)
MaxBatch == 2
Atoms == 3
NumActions == 2
MaxT == 2

(***************************************************************************)
(* Exact rational arithmetic.                                              *)
(***************************************************************************)
Abs(x) == IF x < 0 THEN -x ELSE x

RECURSIVE GCD(_, _)
GCD(a, b) == IF b = 0 THEN a ELSE GCD(b, a % b)

Rat(n, d) ==
    LET g == GCD(Abs(n), Abs(d))
        s == IF d < 0 THEN -1 ELSE 1
    IN  <<(s * n) \div g, (s * d) \div g>>

Zero == <<0, 1>>
One == <<1, 1>>
RInt(i) == <<i, 1>>
RAdd(p, q) ==
    LET g == GCD(p[2], q[2])
    IN  Rat(p[1] * (q[2] \div g) + q[1] * (p[2] \div g), (p[2] \div g) * q[2])
RNeg(p) == <<-p[1], p[2]>>
RSub(p, q) == RAdd(p, RNeg(q))
RMul(p, q) ==
    LET g1 == GCD(Abs(p[1]), q[2])
        g2 == GCD(Abs(q[1]), p[2])
    IN  Rat((p[1] \div g1) * (q[1] \div g2), (p[2] \div g2) * (q[2] \div g1))
RDiv(p, q) == RMul(p, Rat(q[2], q[1]))
RLt(p, q) ==
    LET g == GCD(p[2], q[2]) IN p[1] * (q[2] \div g) < q[1] * (p[2] \div g)
RLe(p, q) == ~RLt(q, p)
RMax(p, q) == IF RLt(p, q) THEN q ELSE p
RMin(p, q) == IF RLt(q, p) THEN q ELSE p
RFloor(p) == p[1] \div p[2]
RCeil(p) == -((-p[1]) \div p[2])

RECURSIVE RPow(_, _)
RPow(p, k) == IF k = 0 THEN One ELSE RMul(p, RPow(p, k - 1))

(***************************************************************************)
(* Floating point values of the projection inputs: finite, +inf, -inf, nan.*)
(***************************************************************************)
XFin(q) == [k |-> "fin", q |-> q]
PInf == [k |-> "pinf", q |-> Zero]
NInf == [k |-> "ninf", q |-> Zero]
NaN == [k |-> "nan", q |-> Zero]

XSign(x) ==
    CASE x.k = "pinf" -> 1
      [] x.k = "ninf" -> -1
      [] x.k = "nan" -> 0
      [] OTHER -> IF x.q[1] > 0 THEN 1 ELSE IF x.q[1] < 0 THEN -1 ELSE 0

XMul(x, y) ==
    IF x.k = "nan" \/ y.k = "nan" THEN NaN
    ELSE IF x.k = "fin" /\ y.k = "fin" THEN XFin(RMul(x.q, y.q))
    ELSE IF XSign(x) * XSign(y) = 0 THEN NaN
    ELSE IF XSign(x) * XSign(y) > 0 THEN PInf ELSE NInf

XAdd(x, y) ==
    IF x.k = "nan" \/ y.k = "nan" THEN NaN
    ELSE IF x.k = "fin" /\ y.k = "fin" THEN XFin(RAdd(x.q, y.q))
    ELSE IF x.k = "fin" THEN y
    ELSE IF y.k = "fin" THEN x
    ELSE IF x.k = y.k THEN x ELSE NaN

XPow(x, k) == IF x.k = "fin" THEN XFin(RPow(x.q, k)) ELSE x

XClamp(x, lo, hi) ==
    CASE x.k = "nan" -> NaN
      [] x.k = "pinf" -> XFin(hi)
      [] x.k = "ninf" -> XFin(lo)
      [] OTHER -> XFin(RMin(RMax(x.q, lo), hi))

XIsFinite(x) == x.k = "fin"


(***************************************************************************)
(* State.                                                                  *)
(*   pc                 "idle" between calls, "returned" after a call,     *)
(*                      "configured" after make_value_estimator            *)
(*   loss               the loss module (hyperparameters, online and       *)
(*                      target parameter snapshots, value_type)            *)
(*   input_tensordict   the caller's batch handed to the loss              *)
(*   fwd                locals and outcome of DistributionalDQNLoss.forward*)
(*   est                the value estimator module                         *)
(*   tensordict         the caller's batch handed to the estimator         *)
(*   grad_enabled       ambient torch gradient mode of the caller          *)
(*   skip_existing_mode ambient tensordict.nn.skip_existing() mode         *)
(*   calls              value-network invocations of the last call         *)
(*   ret                outcome of the last estimator call                 *)
(***************************************************************************)
VARIABLES pc, loss, input_tensordict, fwd, est, tensordict, grad_enabled,
          skip_existing_mode, calls, ret

vars == <<pc, loss, input_tensordict, fwd, est, tensordict, grad_enabled,
          skip_existing_mode, calls, ret>>

AtomIdx == 0 .. (Atoms - 1)
ActionIdx == 0 .. (NumActions - 1)

(***************************************************************************)
(* The support grid held in value_network_params["support"].               *)
(***************************************************************************)
SupportMin == <<-1, 1>>
SupportMax == <<1, 1>>
support ==
    [z \in AtomIdx |->
        RAdd(SupportMin,
             RMul(RInt(z), RDiv(RSub(SupportMax, SupportMin), RInt(Atoms - 1))))]

RECURSIVE SupportFold(_, _, _)
SupportFold(sup, z, pickMax) ==
    IF z = 0 THEN sup[0]
    ELSE LET rest == SupportFold(sup, z - 1, pickMax)
         IN  IF pickMax THEN RMax(rest, sup[z]) ELSE RMin(rest, sup[z])

atoms == Cardinality(DOMAIN support)
Vmin == SupportFold(support, atoms - 1, FALSE)
Vmax == SupportFold(support, atoms - 1, TRUE)
delta_z == RDiv(RSub(Vmax, Vmin), RInt(atoms - 1))

(***************************************************************************)
(* The distributional value network: an opaque function of the parameter   *)
(* snapshot w and of the observation (location loc of row n).  It writes   *)
(* "action" (the greedy action, in the representation of the action space) *)
(* and "action_value" (log-probabilities over atoms, per action).  A       *)
(* log-probability is kept as the probability it is the logarithm of.      *)
(***************************************************************************)
LogOf(p) == [log |-> p]
Exp(lp) == lp.log

LocShift(loc) == IF loc = "next" THEN 1 ELSE 0
NetWeight(w, loc, n, a, z) == 1 + ((w + LocShift(loc) + n + 2 * a + z) % 3)

RECURSIVE NetWeightSum(_, _, _, _, _)
NetWeightSum(w, loc, n, a, z) ==
    IF z < 0 THEN 0
    ELSE NetWeight(w, loc, n, a, z) + NetWeightSum(w, loc, n, a, z - 1)

NetProb(w, loc, n, a, z) ==
    Rat(NetWeight(w, loc, n, a, z), NetWeightSum(w, loc, n, a, Atoms - 1))
NetGreedy(w, loc, n) == (w + LocShift(loc) + n) % NumActions

OneHot(i) == [a \in ActionIdx |-> IF a = i THEN 1 ELSE 0]
ActionRepr(space, i) == IF space = "categorical" THEN i ELSE OneHot(i)

DistValueNetwork(td, w, space, call) ==
    [td EXCEPT
        !.action = [n \in 1 .. td.N |-> ActionRepr(space, NetGreedy(w, td.loc, n))],
        !.action_value =
            [n \in 1 .. td.N |->
                [z \in AtomIdx |->
                    [a \in ActionIdx |-> LogOf(NetProb(w, td.loc, n, a, z))]]],
        !.written_by = call]

(***************************************************************************)
(* step_mdp: the view whose current entries are the batch's "next" entries.*)
(***************************************************************************)
DistStepMdp(td) ==
    [td EXCEPT !.loc = "next", !.action = <<>>, !.action_value = <<>>]

(***************************************************************************)
(* Action log-probability extraction.                                      *)
(***************************************************************************)
RECURSIVE MaskedSelect(_, _, _, _)
MaskedSelect(als, mask, N, i) ==
    IF i >= N * atoms * NumActions THEN <<>>
    ELSE LET n == (i \div (atoms * NumActions)) + 1
             z == (i \div NumActions) % atoms
             a == i % NumActions
             rest == MaskedSelect(als, mask, N, i + 1)
         IN  IF mask[n][a] # 0 THEN <<als[n][z][a]>> \o rest ELSE rest

\* log_ps_a.view(batch_size, atoms) needs exactly batch_size * atoms elements
ViewOk(action, action_log_softmax, batch_size) ==
    Len(MaskedSelect(action_log_softmax, action, batch_size, 0)) = batch_size * atoms

_log_ps_a_default(action, action_log_softmax, batch_size) ==
    LET flat == MaskedSelect(action_log_softmax, action, batch_size, 0)
    IN  [n \in 1 .. batch_size |->
            [z \in AtomIdx |-> flat[(n - 1) * atoms + z + 1]]]

\* lines 279-284: the shape of the index handed to torch.gather: the action
\* gets a trailing dimension unless its last dimension is 1, then a dimension
\* before the last one that is expanded to the number of atoms
GatherIndexShape(action_shape) ==
    LET s == IF action_shape[Len(action_shape)] # 1 THEN action_shape \o <<1>>
             ELSE action_shape
    IN  SubSeq(s, 1, Len(s) - 1) \o <<atoms, s[Len(s)]>>

\* torch.gather needs an index of as many dimensions as action_log_softmax
GatherOk(action_shape) == Len(GatherIndexShape(action_shape)) = 3

_log_ps_a_categorical(action, action_log_softmax, batch_size) ==
    [n \in 1 .. batch_size |->
        [z \in AtomIdx |-> action_log_softmax[n][z][action[n]]]]

RECURSIVE ArgMaxFrom(_, _, _)
ArgMaxFrom(vec, a, best) ==
    IF a >= NumActions THEN best
    ELSE ArgMaxFrom(vec, a + 1, IF vec[a] > vec[best] THEN a ELSE best)
ArgMax(vec) == ArgMaxFrom(vec, 1, 0)


(***************************************************************************)
(* The categorical projection of DistributionalDQNLoss.forward.            *)
(***************************************************************************)
\* mutant of BellmanShift: the done flag is not applied
BellmanShiftNoDone(reward, done, discount, z) ==
    XAdd(reward, XMul(discount, XFin(support[z])))

BellmanShift(reward, done, discount, z) ==
    XAdd(reward,
         XMul(XMul(XFin(IF done THEN Zero ELSE One), discount), XFin(support[z])))

\* mutant of FixUp: the increment of up is left out
FixUpNever(low, up) == up

\* mutant of FixLow: the decrement is not guarded by up > 0
FixLowUnguarded(low, up) == IF low = up THEN low - 1 ELSE low
FixLow(low, up) == IF up > 0 /\ low = up THEN low - 1 ELSE low
FixUp(low, up) == IF low < (atoms - 1) /\ low = up THEN up + 1 ELSE up

LowWeight(p, up, b) == RMul(p, RSub(RInt(up), b))
\* mutant of UpWeight: the upper atom gets the weight of the lower one
UpWeightAsLow(p, b, low) == RMul(p, RSub(RInt(low + 1), b))
UpWeight(p, b, low) == RMul(p, RSub(b, RInt(low)))

offset(n) == (n - 1) * atoms

FlatView(t, batch_size) ==
    [i \in 1 .. (batch_size * atoms) |-> t[((i - 1) \div atoms) + 1][(i - 1) % atoms]]

\* mutant of index_add_: the scatter overwrites the cell instead of accumulating
RECURSIVE index_put_(_, _, _, _)
index_put_(mflat, index, tensor, i) ==
    IF i > Len(index) THEN mflat
    ELSE index_put_([mflat EXCEPT ![index[i]] = tensor[i]], index, tensor, i + 1)

RECURSIVE index_add_(_, _, _, _)
index_add_(mflat, index, tensor, i) ==
    IF i > Len(index) THEN mflat
    ELSE index_add_([mflat EXCEPT ![index[i]] = RAdd(@, tensor[i])],
                    index, tensor, i + 1)

IndexInRange(index, batch_size) ==
    \A i \in DOMAIN index : index[i] \in 0 .. (batch_size * atoms - 1)

\* b = (Tz - Vmin) / delta_z (line 373)
BinPosition(batch_size, Tz) ==
    [n \in 1 .. batch_size |-> [z \in AtomIdx |->
        RDiv(RSub(Tz[n][z].q, Vmin), delta_z)]]

\* low after line 376: floor(b), lowered where it met ceil(b)
LowIndex(batch_size, b) ==
    [n \in 1 .. batch_size |-> [z \in AtomIdx |->
        FixLow(RFloor(b[n][z]), RCeil(b[n][z]))]]

\* mutant of UpIndex: the increment is decided on floor(b), not on the fixed low
UpIndexFromFloor(batch_size, b, low) ==
    [n \in 1 .. batch_size |-> [z \in AtomIdx |->
        FixUp(RFloor(b[n][z]), RCeil(b[n][z]))]]

\* up after line 377: ceil(b), raised where it still meets the fixed low
UpIndex(batch_size, b, low) ==
    [n \in 1 .. batch_size |-> [z \in AtomIdx |->
        FixUp(low[n][z], RCeil(b[n][z]))]]

\* the two index_add_ calls into the flat view of m (lines 380-396)
Scatter(batch_size, index_low, tensor_low, index_up, tensor_up) ==
    LET m0 == [i \in 0 .. (batch_size * atoms - 1) |-> Zero]
    IN  IF IndexInRange(index_low, batch_size) /\ IndexInRange(index_up, batch_size)
        THEN [raised |-> "none",
              m |-> index_add_(index_add_(m0, index_low, tensor_low, 1),
                               index_up, tensor_up, 1)]
        ELSE [raised |-> "IndexError", m |-> m0]

Distribute(batch_size, pns_a, b, low, up) ==
    Scatter(batch_size,
            FlatView([n \in 1 .. batch_size |-> [z \in AtomIdx |->
                        low[n][z] + offset(n)]], batch_size),
            FlatView([n \in 1 .. batch_size |-> [z \in AtomIdx |->
                        LowWeight(pns_a[n][z], up[n][z], b[n][z])]], batch_size),
            FlatView([n \in 1 .. batch_size |-> [z \in AtomIdx |->
                        up[n][z] + offset(n)]], batch_size),
            FlatView([n \in 1 .. batch_size |-> [z \in AtomIdx |->
                        UpWeight(pns_a[n][z], b[n][z], low[n][z])]], batch_size))

Projection(batch_size, b, low, up, scattered) ==
    [raised |-> scattered.raised, b |-> b, low |-> low, up |-> up,
     m |-> [n \in 1 .. batch_size |-> [z \in AtomIdx |-> scattered.m[offset(n) + z]]]]

ProjectBins(batch_size, pns_a, b, low, up) ==
    Projection(batch_size, b, low, up, Distribute(batch_size, pns_a, b, low, up))

ProjectFrom(batch_size, pns_a, b, low) ==
    ProjectBins(batch_size, pns_a, b, low, UpIndex(batch_size, b, low))

ProjectAt(batch_size, pns_a, b) ==
    ProjectFrom(batch_size, pns_a, b, LowIndex(batch_size, b))

\* lines 373-396: the projection of the clamped Tz onto the support
Project(batch_size, Tz, pns_a) ==
    ProjectAt(batch_size, pns_a, BinPosition(batch_size, Tz))


(***************************************************************************)
(* DistributionalDQNLoss.forward as a function of the module and of the    *)
(* caller's batch: the locals it computes, the value-network invocations   *)
(* it makes and the batch it leaves behind.  Each phase of the method is   *)
(* an operator that receives the locals computed so far.                   *)
(***************************************************************************)
NoEntry == [present |-> FALSE, v |-> <<>>]
Entry(v) == [present |-> TRUE, v |-> v]

EmptyFwd ==
    [raised |-> "none", argmax_indices_ns |-> <<>>, sel_call |-> 0,
     pns_a |-> <<>>, eval_call |-> 0, Tz |-> <<>>, Tz_raw |-> <<>>,
     b |-> <<>>, low |-> <<>>, up |-> <<>>, m |-> <<>>, log_ps_a |-> <<>>]

NetCall(on, pname, w) == [on |-> on, params |-> pname, w |-> w]

CrossEntropy(m_row, log_ps_a_row) == [m |-> m_row, log_p |-> log_ps_a_row]

\* mutant of SelectionSource: the action is read after the target-snapshot call
SelectionAfterTarget(after_online, after_target) == after_target

\* the state of next_td from which the next-state action is read (line 337)
SelectionSource(after_online, after_target) == after_online
\* the state of next_td from which the next-state distribution is read (line 347)
EvaluationSource(after_online, after_target) == after_target

NonFiniteCheck(Tz, batch_size) ==
    \A n \in 1 .. batch_size : \A z \in AtomIdx : XIsFinite(Tz[n][z])

\* the caller's batch as the value network sees it
InputView(itd) ==
    [N |-> itd.N, loc |-> "cur", action |-> itd.action,
     action_value |-> <<>>, written_by |-> 0]

\* discount = gamma ** steps_to_next_obs (lines 310-311)
Discount(l, itd) ==
    IF itd.steps_to_next_obs = 0 THEN XPow(XFin(l.gamma), 1)
    ELSE XPow(XFin(l.gamma), itd.steps_to_next_obs)

OnlineCalls(l) ==
    <<NetCall("td_clone", "value_network_params", l.value_network_params)>>

AllCalls(l) ==
    OnlineCalls(l) \o
    <<NetCall("next_td", "value_network_params", l.value_network_params),
      NetCall("next_td", "target_value_network_params", l.target_value_network_params)>>

\* mutant of Raise: a priority is written to the batch before the error
RaiseAfterWrite(kind, locals, made, itd) ==
    [fwd |-> [locals EXCEPT !.raised = kind], calls |-> made,
     input_tensordict |-> [itd EXCEPT !.td_error = Entry(<<>>)]]

Raise(kind, locals, made, itd) ==
    [fwd |-> [locals EXCEPT !.raised = kind], calls |-> made, input_tensordict |-> itd]

\* lines 399-404: the loss and the priority written to the caller's batch
WriteLoss(l, itd, log_ps_a, locals, pr) ==
    LET done_fwd == [locals EXCEPT !.raised = pr.raised, !.b = pr.b,
                        !.low = pr.low, !.up = pr.up, !.m = pr.m,
                        !.log_ps_a = log_ps_a]
    IN  IF pr.raised # "none"
        THEN [fwd |-> done_fwd, calls |-> AllCalls(l), input_tensordict |-> itd]
        ELSE [fwd |-> done_fwd, calls |-> AllCalls(l),
              input_tensordict |->
                 [itd EXCEPT !.td_error =
                     Entry([n \in 1 .. itd.N |-> CrossEntropy(pr.m[n], log_ps_a[n])])]]

\* lines 370-396: the finiteness test of the clamped Tz, then the projection
CheckAndProject(l, itd, log_ps_a, locals) ==
    IF ~NonFiniteCheck(locals.Tz, itd.N)
    THEN Raise("RuntimeError", locals, AllCalls(l), itd)
    ELSE WriteLoss(l, itd, log_ps_a, locals, Project(itd.N, locals.Tz, locals.pns_a))

\* argmax_indices_ns (lines 337-341)
NextStateAction(l, sel, batch_size) ==
    [n \in 1 .. batch_size |-> IF l.action_space = "categorical" THEN sel.action[n]
                               ELSE ArgMax(sel.action[n])]

\* Tz before clamping (line 361)
TzRaw(itd, discount) ==
    [n \in 1 .. itd.N |-> [z \in AtomIdx |->
        BellmanShift(itd.reward[n], itd.done[n], discount, z)]]

\* pns, pns_a and the clamped Tz (lines 347-369)
Targets(itd, sel, ev, argmax_indices_ns, Tz_raw) ==
    [EmptyFwd EXCEPT
        !.argmax_indices_ns = argmax_indices_ns,
        !.sel_call = sel.written_by,
        !.pns_a = [n \in 1 .. itd.N |-> [z \in AtomIdx |->
                      [a \in ActionIdx |-> Exp(ev.action_value[n][z][a])]
                          [argmax_indices_ns[n]]]],
        !.eval_call = ev.written_by,
        !.Tz_raw = Tz_raw,
        !.Tz = [n \in 1 .. itd.N |-> [z \in AtomIdx |->
                   XClamp(Tz_raw[n][z], Vmin, Vmax)]]]

AfterTarget(l, itd, log_ps_a, sel, ev) ==
    CheckAndProject(l, itd, log_ps_a,
                    Targets(itd, sel, ev, NextStateAction(l, sel, itd.N),
                            TzRaw(itd, Discount(l, itd))))

\* line 343-346: next_td after the call with target_value_network_params
NextStateTarget(l, itd, log_ps_a, next_td1, next_td2) ==
    AfterTarget(l, itd, log_ps_a, SelectionSource(next_td1, next_td2),
                EvaluationSource(next_td1, next_td2))

\* line 331-335: next_td after the call with value_network_params
NextStateOnline(l, itd, log_ps_a, next_td1) ==
    NextStateTarget(l, itd, log_ps_a, next_td1,
                    DistValueNetwork(next_td1, l.target_value_network_params,
                                     l.action_space, 3))

\* lines 322-335: log_ps_a from the online call on td_clone, then next_td
AfterOnline(l, itd, td_clone) ==
    IF IF l.action_space = "categorical" THEN ~GatherOk(itd.action_shape)
       ELSE ~ViewOk(itd.action, td_clone.action_value, itd.N)
    THEN Raise("RuntimeError", EmptyFwd, OnlineCalls(l), itd)
    ELSE NextStateOnline(l, itd,
             IF l.action_space = "categorical"
             THEN _log_ps_a_categorical(itd.action, td_clone.action_value, itd.N)
             ELSE _log_ps_a_default(itd.action, td_clone.action_value, itd.N),
             DistValueNetwork(DistStepMdp(InputView(itd)), l.value_network_params,
                              l.action_space, 2))

DistForward(l, itd) ==
    IF itd.batch_dims # 1
    THEN \* building the message reads self.__class__.__name___ (line 296)
         Raise("AttributeError", EmptyFwd, <<>>, itd)
    ELSE AfterOnline(l, itd,
             DistValueNetwork(InputView(itd), l.value_network_params,
                              l.action_space, 1))


(***************************************************************************)
(* The distributional loss: construction, calls of forward by the training *)
(* loop, and the caller taking the result.                                 *)
(***************************************************************************)
Half == <<1, 2>>
Gammas == {Half, One}
ActionSpaces == {"categorical", "one-hot"}
RewardValues == <<XFin(<<-2, 1>>), XFin(Zero), XFin(Half), XFin(One), PInf, NInf, NaN>>
StepsValues == {0, 2}   \* 0: no "steps_to_next_obs" entry in the batch

EmptyBatch ==
    [batch_dims |-> 1, N |-> 0, action |-> <<>>, action_shape |-> <<0>>,
     reward |-> <<>>, done |-> <<>>, steps_to_next_obs |-> 0, td_error |-> NoEntry]

NoEstimator == [kind |-> "none"]
NoLoss == [gamma |-> Zero]

\* convert_to_functional (lines 262-266): without delay_value the target
\* parameters are the online parameters, detached
LossModule(cls, g, sp, dv) ==
    [cls |-> cls, gamma |-> g, action_space |-> sp, delay_value |-> dv,
     priority_key |-> "td_error",
     value_network_params |-> 0,
     target_value_network_params |-> IF dv THEN 1 ELSE 0,
     value_type |-> "unset", value_estimator |-> "none"]

LossModules ==
    {LossModule("DistributionalDQNLoss", g, sp, dv) :
        g \in Gammas, sp \in ActionSpaces, dv \in BOOLEAN}

\* DQNLoss.__init__ (lines 61-111), with the deprecated gamma argument given
DQNLossModules ==
    {LossModule("DQNLoss", g, sp, dv) : g \in {Half}, sp \in ActionSpaces, dv \in BOOLEAN}

\* the members of ValueEstimators and a value that is none of them
ValueEstimators == {"TD0", "TD1", "TDLambda", "GAE"}
UnknownValueType == "Unknown"

\* the branches of DQNLoss.make_value_estimator that build an estimator
\* (lines 121-149)
DQNLossSupports(value_type) == value_type \in {"TD1", "TD0", "TDLambda"}

\* mutant of DistributionalSupports: the TDLambda branch passes like TD0
DistributionalSupportsTDLambda(value_type) == value_type \in {"TD0", "TDLambda"}
\* the branch of DistributionalDQNLoss.make_value_estimator that does not
\* raise (lines 416-418)
DistributionalSupports(value_type) == value_type = "TD0"

\* DQNLoss.make_value_estimator (lines 113-150); value_type "None" stands for
\* the omitted argument, replaced by default_value_estimator (line 59)
DQNLossMakeValueEstimator(l, value_type) ==
    LET vt == IF value_type = "None" THEN "TDLambda" ELSE value_type
    IN  IF DQNLossSupports(vt)
        THEN [loss |-> [l EXCEPT !.value_type = vt, !.value_estimator = vt],
              raised |-> "none"]
        ELSE [loss |-> [l EXCEPT !.value_type = vt], raised |-> "NotImplementedError"]

\* DistributionalDQNLoss.make_value_estimator (lines 408-428)
DistributionalMakeValueEstimator(l, value_type) ==
    [loss |-> [l EXCEPT !.value_type = value_type],
     raised |-> IF DistributionalSupports(value_type) THEN "none"
                ELSE "NotImplementedError"]

InitDist ==
    /\ pc = "idle"
    /\ loss \in LossModules \cup DQNLossModules
    /\ input_tensordict = EmptyBatch
    /\ fwd = EmptyFwd
    /\ calls = <<>>
    /\ est = NoEstimator
    /\ tensordict = <<>>
    /\ grad_enabled = TRUE
    /\ skip_existing_mode = FALSE
    /\ ret = <<>>

\* The batches the training loop hands in: row n holds the reward
\* RewardValues[i0 + n - 1] (cyclically) and alternating done flags from d0 on;
\* an integer action comes with or without a trailing dimension of size 1.
DistBatch(bd, N, a0, i0, d0, k, trailing) ==
    [batch_dims |-> bd, N |-> N,
     action |-> [n \in 1 .. N |-> ActionRepr(loss.action_space, (a0 + n) % NumActions)],
     action_shape |-> IF loss.action_space # "categorical" THEN <<N, NumActions>>
                      ELSE IF trailing THEN <<N, 1>> ELSE <<N>>,
     reward |-> [n \in 1 .. N |-> RewardValues[((i0 + n - 2) % Len(RewardValues)) + 1]],
     done |-> [n \in 1 .. N |-> ((d0 + n) % 2) = 1],
     steps_to_next_obs |-> k, td_error |-> NoEntry]

DistributionalDQNLossForward ==
    /\ pc = "idle"
    /\ loss.cls = "DistributionalDQNLoss"
    /\ \E bd \in {1, 2}, a0 \in ActionIdx, k \in StepsValues, N \in 1 .. MaxBatch,
          i0 \in 1 .. Len(RewardValues), d0 \in {0, 1},
          trailing \in (IF loss.action_space = "categorical" THEN BOOLEAN ELSE {TRUE}) :
          LET r == DistForward(loss, DistBatch(bd, N, a0, i0, d0, k, trailing))
          IN  /\ fwd' = r.fwd
              /\ calls' = r.calls
              /\ input_tensordict' = r.input_tensordict
    /\ pc' = "returned"
    /\ UNCHANGED <<loss, est, tensordict, grad_enabled, skip_existing_mode, ret>>

\* loss.make_value_estimator(value_type) called by the training script
MakeValueEstimator ==
    /\ pc = "idle"
    /\ \E value_type \in ValueEstimators \cup {UnknownValueType}
                          \cup (IF loss.cls = "DQNLoss" THEN {"None"} ELSE {}) :
          LET r == IF loss.cls = "DQNLoss"
                   THEN DQNLossMakeValueEstimator(loss, value_type)
                   ELSE DistributionalMakeValueEstimator(loss, value_type)
          IN  /\ loss' = r.loss
              /\ fwd' = [EmptyFwd EXCEPT !.raised = r.raised]
    /\ pc' = "configured"
    /\ UNCHANGED <<input_tensordict, calls, est, tensordict, grad_enabled,
                   skip_existing_mode, ret>>

DistReturn ==
    /\ pc \in {"returned", "configured"}
    /\ pc' = "idle"
    /\ fwd' = EmptyFwd
    /\ calls' = <<>>
    /\ input_tensordict' = EmptyBatch
    /\ UNCHANGED <<loss, est, tensordict, grad_enabled, skip_existing_mode, ret>>

NextDist == DistributionalDQNLossForward \/ MakeValueEstimator \/ DistReturn

SpecDist == InitDist /\ [][NextDist]_vars


(***************************************************************************)
(* Properties of the distributional loss.                                  *)
(***************************************************************************)
RECURSIVE RowSum(_, _)
RowSum(row, z) == IF z < 0 THEN Zero ELSE RAdd(row[z], RowSum(row, z - 1))

IsIntegral(q) == q[2] = 1

Projected == pc = "returned" /\ fwd.raised = "none"
FwdRows == 1 .. input_tensordict.N

\* C1: probability mass conservation: every row of the projected distribution
\* m sums to what the row of pns_a sums to (and so to 1 for a probability row)
C1_MassConservation ==
    Projected =>
        \A n \in FwdRows :
            /\ RowSum(fwd.m[n], atoms - 1) = RowSum(fwd.pns_a[n], atoms - 1)
            /\ RowSum(fwd.pns_a[n], atoms - 1) = One => RowSum(fwd.m[n], atoms - 1) = One

\* a projected batch of two rows in which an element was clamped, an element
\* landed exactly on an atom and an element landed between two atoms
C1_Witness ==
    /\ Projected
    /\ input_tensordict.N >= 2
    /\ \E n \in FwdRows, z \in AtomIdx : fwd.Tz[n][z] # fwd.Tz_raw[n][z]
    /\ \E n \in FwdRows, z \in AtomIdx : IsIntegral(fwd.b[n][z])
    /\ \E n \in FwdRows, z \in AtomIdx : ~IsIntegral(fwd.b[n][z])
    /\ \A n \in FwdRows : RowSum(fwd.m[n], atoms - 1) = One

\* mass that elements landing exactly on atom j bring to row n
RECURSIVE OnAtomMass(_, _, _)
OnAtomMass(n, j, z) ==
    IF z < 0 THEN Zero
    ELSE RAdd(IF fwd.b[n][z] = RInt(j) THEN fwd.pns_a[n][z] ELSE Zero,
              OnAtomMass(n, j, z - 1))

\* C2: degenerate-bin fix: an element whose b is integral (b = 0 and b = Z-1
\* included) adds its whole mass pns_a to the atom of index b, so a row with
\* positive input mass is never projected to an all-zero row
C2_DegenerateBinFix ==
    Projected =>
        \A n \in FwdRows :
            /\ \A z \in AtomIdx :
                  IsIntegral(fwd.b[n][z]) =>
                     LET j == fwd.b[n][z][1]
                         toLow == IF fwd.low[n][z] = j
                                  THEN LowWeight(fwd.pns_a[n][z], fwd.up[n][z], fwd.b[n][z])
                                  ELSE Zero
                         toUp == IF fwd.up[n][z] = j
                                 THEN UpWeight(fwd.pns_a[n][z], fwd.b[n][z], fwd.low[n][z])
                                 ELSE Zero
                     IN  /\ j \in AtomIdx
                         /\ RAdd(toLow, toUp) = fwd.pns_a[n][z]
                         /\ RLe(OnAtomMass(n, j, atoms - 1), fwd.m[n][j])
            /\ RLt(Zero, RowSum(fwd.pns_a[n], atoms - 1))
                  => \E j \in AtomIdx : RLt(Zero, fwd.m[n][j])

\* a projected row whose elements land on the first atom, on the last atom and
\* on an inner atom
C2_Witness ==
    /\ Projected
    /\ \E n \in FwdRows :
          /\ \E z \in AtomIdx : fwd.b[n][z] = Zero /\ RLt(Zero, fwd.pns_a[n][z])
          /\ \E z \in AtomIdx : fwd.b[n][z] = RInt(atoms - 1)
    /\ \E n \in FwdRows, z \in AtomIdx :
          IsIntegral(fwd.b[n][z]) /\ fwd.b[n][z][1] \in 1 .. (atoms - 2)

\* C3: double estimator: the next-state action comes from the invocation with
\* the online snapshot (the second one), the distribution read at that action
\* from the later invocation with the target snapshot (the third one)
C3_DoubleEstimator ==
    (pc = "returned" /\ Len(calls) = 3) =>
        /\ fwd.sel_call = 2
        /\ calls[fwd.sel_call].params = "value_network_params"
        /\ fwd.eval_call = 3
        /\ calls[fwd.eval_call].params = "target_value_network_params"
        /\ fwd.sel_call < fwd.eval_call
        /\ \A n \in FwdRows :
              /\ fwd.argmax_indices_ns[n] = NetGreedy(loss.value_network_params, "next", n)
              /\ \A z \in AtomIdx :
                    fwd.pns_a[n][z] =
                        NetProb(loss.target_value_network_params, "next", n,
                                fwd.argmax_indices_ns[n], z)

\* a call with distinct snapshots whose greedy actions and distributions differ
C3_Witness ==
    /\ Projected
    /\ Len(calls) = 3
    /\ loss.delay_value
    /\ \E n \in FwdRows :
          /\ NetGreedy(loss.value_network_params, "next", n)
                # NetGreedy(loss.target_value_network_params, "next", n)
          /\ \E z \in AtomIdx :
                NetProb(loss.value_network_params, "next", n, fwd.argmax_indices_ns[n], z)
                    # fwd.pns_a[n][z]

\* C4: a non-finite element of the Bellman-shifted support
\* reward + (1 - done) * discount * support always makes forward fail
C4_NonFiniteAlwaysFails ==
    (/\ pc = "returned"
     /\ input_tensordict.batch_dims = 1
     /\ fwd.Tz_raw # <<>>
     /\ \E n \in FwdRows, z \in AtomIdx : ~XIsFinite(fwd.Tz_raw[n][z]))
        => fwd.raised # "none"


(***************************************************************************)
(* Numbers of the value estimators.  Standardisation divides by a standard *)
(* deviation sigma, in general irrational: a number is kept as the exact   *)
(* linear form c + u / sigma over the rationals (sigma the scale of the    *)
(* call), or is nan.                                                       *)
(***************************************************************************)
NFin(c, u) == [k |-> "fin", c |-> c, u |-> u]
NOf(q) == NFin(q, Zero)
NNaN == [k |-> "nan", c |-> Zero, u |-> Zero]

NAdd(x, y) ==
    IF x.k = "nan" \/ y.k = "nan" THEN NNaN
    ELSE NFin(RAdd(x.c, y.c), RAdd(x.u, y.u))
NScale(q, x) == IF x.k = "nan" THEN NNaN ELSE NFin(RMul(q, x.c), RMul(q, x.u))
NSub(x, y) == NAdd(x, NScale(RInt(-1), y))
\* mutant of NSeqSub: the operands are swapped
NSeqSubSwapped(xs, ys) == [t \in DOMAIN xs |-> NSub(ys[t], xs[t])]
NSeqSub(xs, ys) == [t \in DOMAIN xs |-> NSub(xs[t], ys[t])]
NSeqAdd(xs, ys) == [t \in DOMAIN xs |-> NAdd(xs[t], ys[t])]

InvEps == 10000        \* 1 / 1e-4, the lower clamp of the standard deviation

RECURSIVE NSum(_, _)
NSum(xs, t) == IF t > Len(xs) THEN Zero ELSE RAdd(xs[t].c, NSum(xs, t + 1))

RECURSIVE SqDevSum(_, _, _)
SqDevSum(xs, mean, t) ==
    IF t > Len(xs) THEN Zero
    ELSE RAdd(RMul(RSub(xs[t].c, mean), RSub(xs[t].c, mean)), SqDevSum(xs, mean, t + 1))

Mean(xs) == RDiv(NSum(xs, 1), RInt(Len(xs)))
\* torch.std: unbiased, nan for a single element
Variance(xs) == RDiv(SqDevSum(xs, Mean(xs), 1), RInt(Len(xs) - 1))
StdBelowEps(var) == var[1] = 0 \/ (var[2] \div var[1]) >= InvEps * InvEps

\* (x - x.mean()) / x.std().clamp_min(1e-4), over the whole batch
Standardize(xs) ==
    IF Len(xs) < 2 \/ \E t \in DOMAIN xs : xs[t].k = "nan" \/ xs[t].u # Zero
    THEN [t \in DOMAIN xs |-> NNaN]
    ELSE IF StdBelowEps(Variance(xs))
    THEN [t \in DOMAIN xs |-> NOf(RMul(RSub(xs[t].c, Mean(xs)), RInt(InvEps)))]
    ELSE [t \in DOMAIN xs |-> NFin(Zero, RSub(xs[t].c, Mean(xs)))]

(***************************************************************************)
(* The return estimators of torchrl/objectives/value/functional.py, over   *)
(* one trajectory t = 1 .. T.  gamma is the per-step discount sequence     *)
(* (already raised to steps_to_next_obs by the caller).                    *)
(***************************************************************************)
NotDone(d) == IF d THEN Zero ELSE One

RECURSIVE Backward(_, _, _)
\* x[t] + c[t] * (x[t+1] + c[t+1] * ( ... )), nothing beyond the last step
Backward(c, x, t) ==
    IF t > Len(x) THEN NOf(Zero)
    ELSE NAdd(x[t], NScale(c[t], Backward(c, x, t + 1)))

RECURSIVE CoefProd(_, _, _)
CoefProd(c, t, j) == IF t >= j THEN One ELSE RMul(c[t], CoefProd(c, t + 1, j))

RECURSIVE PrefixSum(_, _, _, _)
\* sum over j = from .. T of (c[t] * ... * c[j-1]) * x[j]
PrefixSum(c, x, t, from) ==
    IF from > Len(x) THEN NOf(Zero)
    ELSE NAdd(NScale(CoefProd(c, t, from), x[from]), PrefixSum(c, x, t, from + 1))

td0_return_estimate(gamma, next_state_value, reward, done) ==
    [t \in DOMAIN reward |->
        NAdd(reward[t], NScale(RMul(gamma[t], NotDone(done[t])), next_state_value[t]))]

vec_td1_return_estimate(gamma, next_state_value, reward, done) ==
    LET T == Len(reward)
        c == [t \in 1 .. T |-> RMul(gamma[t], NotDone(done[t]))]
        x == [t \in 1 .. T |->
                IF t = T THEN NAdd(reward[t], NScale(c[t], next_state_value[t]))
                ELSE reward[t]]
    IN  [t \in 1 .. T |-> PrefixSum(c, x, t, t)]

TdLambdaTerms(gamma, lmbda, next_state_value, reward, done) ==
    [t \in DOMAIN reward |->
        NAdd(reward[t],
             NScale(RMul(RMul(gamma[t], NotDone(done[t])), RSub(One, lmbda)),
                    next_state_value[t]))]
TdLambdaCoef(gamma, lmbda, done) ==
    [t \in DOMAIN gamma |-> RMul(RMul(gamma[t], NotDone(done[t])), lmbda)]

td_lambda_return_estimate(gamma, lmbda, next_state_value, reward, done) ==
    LET c == TdLambdaCoef(gamma, lmbda, done)
        x == TdLambdaTerms(gamma, lmbda, next_state_value, reward, done)
    IN  [t \in DOMAIN reward |-> Backward(c, x, t)]

vec_td_lambda_return_estimate(gamma, lmbda, next_state_value, reward, done) ==
    LET c == TdLambdaCoef(gamma, lmbda, done)
        x == TdLambdaTerms(gamma, lmbda, next_state_value, reward, done)
    IN  [t \in DOMAIN reward |-> PrefixSum(c, x, t, t)]

GaeDelta(gamma, state_value, next_state_value, reward, done) ==
    [t \in DOMAIN reward |->
        NSub(NAdd(reward[t],
                  NScale(RMul(gamma[t], NotDone(done[t])), next_state_value[t])),
             state_value[t])]

generalized_advantage_estimate(gamma, lmbda, state_value, next_state_value, reward, done) ==
    LET c == TdLambdaCoef(gamma, lmbda, done)
        delta == GaeDelta(gamma, state_value, next_state_value, reward, done)
        adv == [t \in DOMAIN reward |-> Backward(c, delta, t)]
    IN  [adv |-> adv, value_target |-> NSeqAdd(adv, state_value)]

vec_generalized_advantage_estimate(gamma, lmbda, state_value, next_state_value, reward, done) ==
    LET c == TdLambdaCoef(gamma, lmbda, done)
        delta == GaeDelta(gamma, state_value, next_state_value, reward, done)
        adv == [t \in DOMAIN reward |-> PrefixSum(c, delta, t, t)]
    IN  [adv |-> adv, value_target |-> NSeqAdd(adv, state_value)]


(***************************************************************************)
(* Parameter snapshots handed to a functional value network.               *)
(***************************************************************************)
NoParams == [given |-> FALSE, w |-> 0, detached |-> FALSE]
OnlineParams == [given |-> TRUE, w |-> 0, detached |-> FALSE]
TargetParams == [given |-> TRUE, w |-> 1, detached |-> TRUE]
Detach(p) == [p EXCEPT !.detached = TRUE]

(***************************************************************************)
(* The state-value network: an opaque function of the weights w and of the *)
(* observation (step t of the trajectory, at the current or the next       *)
(* location; the next observation of step t is the observation of t + 1).  *)
(***************************************************************************)
NetValue(w, loc, t) == RInt(((w + 1) * (t + LocShift(loc))) % 3)

\* mutant of EstCall: every invocation is made on the current-step batch
EstCallOnCurrent(on, p, mode, computed) ==
    [on |-> "tensordict", params |-> p, grad |-> mode.grad, computed |-> computed,
     hold_out |-> TRUE]

EstCall(on, p, mode, computed) ==
    [on |-> on, params |-> p, grad |-> mode.grad, computed |-> computed,
     hold_out |-> TRUE]

\* self.value_network(view, **kwargs) under hold_out_net.  A module whose
\* out_keys are all present is skipped when skip_existing is on (docstring,
\* lines 201-204); a functional (stateless) module cannot run without params.
ValueNetwork(e, view, p, mode) ==
    IF mode.skip /\ view.state_value.present
    THEN [view |-> view, raised |-> "none", call |-> EstCall(view.name, p, mode, FALSE)]
    ELSE IF e.stateless /\ ~p.given
    THEN [view |-> view, raised |-> "NetworkError",
          call |-> EstCall(view.name, p, mode, FALSE)]
    ELSE [view |-> [view EXCEPT !.state_value =
                      Entry([t \in 1 .. view.T |->
                                NOf(NetValue(IF p.given THEN p.w ELSE 0, view.loc, t))])],
          raised |-> "none",
          call |-> EstCall(view.name, p, mode, TRUE)]

CurrentView(td) ==
    [name |-> "tensordict", loc |-> "cur", T |-> td.T, state_value |-> td.state_value]

\* step_mdp(tensordict): the entries under "next" become the current entries
step_mdp(td) ==
    [name |-> "step_td", loc |-> "next", T |-> td.T, state_value |-> td.next_state_value]

\* mutant of DiscountSeq: steps_to_next_obs is not applied
DiscountSeqNoSteps(e, td) == [t \in 1 .. td.T |-> e.gamma]
\* gamma ** steps_to_next_obs.view_as(reward), or gamma when the entry is absent
DiscountSeq(e, td) ==
    [t \in 1 .. td.T |->
        IF td.steps_to_next_obs = 0 THEN e.gamma ELSE RPow(e.gamma, td.steps_to_next_obs)]

SetOut(td, key, v) == [td EXCEPT !.out = [@ EXCEPT ![key] = Entry(v)]]

Result(td, cs, raised, value) ==
    [td |-> td, calls |-> cs, raised |-> raised, value |-> value]

(***************************************************************************)
(* TD0Estimator / TD1Estimator / TDLambdaEstimator .value_estimate         *)
(***************************************************************************)
\* mutant of ReturnEstimate: the done flags are not handed on
ReturnEstimateNoDone(e, gamma, next_value, reward, done) ==
    CASE e.kind = "TD0" ->
           td0_return_estimate(gamma, next_value, reward, [t \in DOMAIN done |-> FALSE])
      [] e.kind = "TD1" ->
           vec_td1_return_estimate(gamma, next_value, reward, [t \in DOMAIN done |-> FALSE])
      [] OTHER ->
           vec_td_lambda_return_estimate(gamma, e.lmbda, next_value, reward,
                                         [t \in DOMAIN done |-> FALSE])

ReturnEstimate(e, gamma, next_value, reward, done) ==
    CASE e.kind = "TD0" -> td0_return_estimate(gamma, next_value, reward, done)
      [] e.kind = "TD1" -> vec_td1_return_estimate(gamma, next_value, reward, done)
      [] OTHER ->
           IF e.vectorized
           THEN vec_td_lambda_return_estimate(gamma, e.lmbda, next_value, reward, done)
           ELSE td_lambda_return_estimate(gamma, e.lmbda, next_value, reward, done)

\* mutant of SetReward: the standardized rewards are not written back
SetRewardSkipped(td, reward) == td
\* tensordict.set(("next", "reward"), reward) (lines 335-337)
SetReward(td, reward) == [td EXCEPT !.reward = reward]

TDValueEstimate(e, td, target_params, mode) ==
    LET gamma == DiscountSeq(e, td)
        reward == IF e.average_rewards THEN Standardize(td.reward) ELSE td.reward
        td1 == IF e.average_rewards THEN SetReward(td, reward) ELSE td
        net == ValueNetwork(e, step_mdp(td1), target_params, mode)
        step_td == net.view
    IN  IF net.raised # "none" THEN Result(td1, <<net.call>>, net.raised, <<>>)
        ELSE IF ~step_td.state_value.present
        THEN Result(td1, <<net.call>>, "KeyError", <<>>)
        ELSE Result(td1, <<net.call>>, "none",
                    ReturnEstimate(e, gamma, step_td.state_value.v, reward, td.done))

(***************************************************************************)
(* TD0Estimator / TD1Estimator / TDLambdaEstimator .forward (the body      *)
(* under the decorators)                                                   *)
(***************************************************************************)
\* kwargs["params"] of the current-step invocation (lines 307, 481, 664)
CurrentStepParams(e, params) ==
    IF ~params.given THEN NoParams
    ELSE IF e.kind \in {"TD0", "TD1"} THEN Detach(params) ELSE params

\* mutant of DefaultTargetParams: params are reused without detach
DefaultTargetParamsNoDetach(params, target_params) ==
    IF params.given /\ ~target_params.given THEN params ELSE target_params

\* target_params handed to value_estimate (lines 312-313, 487-488, 669-670)
DefaultTargetParams(params, target_params) ==
    IF params.given /\ ~target_params.given THEN Detach(params) ELSE target_params

\* keys written by forward (lines 315-316, 490-491, 673-674)
AdvantageKey(e) == IF e.kind \in {"TD0", "TD1"} THEN "advantage" ELSE e.advantage_key
ValueTargetKey(e) == IF e.kind \in {"TD0", "TD1"} THEN "value_target" ELSE e.value_target_key

\* mutant of MissingParams: the check is left out
MissingParamsNever(e, params) == FALSE
MissingParams(e, params) == e.stateless /\ ~params.given
NoTimeDim(td) == td.batch_dims < 1

TDForwardBody(e, td, params, target_params, mode) ==
    IF NoTimeDim(td) THEN Result(td, <<>>, "RuntimeError", <<>>)
    ELSE IF MissingParams(e, params) THEN Result(td, <<>>, "RuntimeError", <<>>)
    ELSE LET net == ValueNetwork(e, CurrentView(td), CurrentStepParams(e, params), mode)
             td1 == [td EXCEPT !.state_value = net.view.state_value]
             value == td1.state_value.v
             ve == TDValueEstimate(e, td1, DefaultTargetParams(params, target_params), mode)
             cs == <<net.call>> \o ve.calls
         IN  IF net.raised # "none" THEN Result(td, <<net.call>>, net.raised, <<>>)
             ELSE IF ve.raised # "none" THEN Result(ve.td, cs, ve.raised, <<>>)
             ELSE Result(SetOut(SetOut(ve.td, AdvantageKey(e), NSeqSub(ve.value, value)),
                                ValueTargetKey(e), ve.value),
                         cs, "none", <<>>)


(***************************************************************************)
(* GAE.forward (the body under the decorators) and GAE.value_estimate      *)
(***************************************************************************)
\* kwargs["params"] of the next-step invocation (lines 890-894, 968-972)
GaeNextParams(params, target_params) ==
    IF target_params.given THEN target_params
    ELSE IF params.given THEN Detach(params) ELSE NoParams

\* mutant of GaeEstimate: the sequential branch is handed value and next_value
\* in the wrong order
GaeEstimateSwapped(e, vectorized, gamma, value, next_value, reward, done) ==
    IF vectorized
    THEN vec_generalized_advantage_estimate(gamma, e.lmbda, value, next_value, reward, done)
    ELSE generalized_advantage_estimate(gamma, e.lmbda, next_value, value, reward, done)

GaeEstimate(e, vectorized, gamma, value, next_value, reward, done) ==
    IF vectorized
    THEN vec_generalized_advantage_estimate(gamma, e.lmbda, value, next_value, reward, done)
    ELSE generalized_advantage_estimate(gamma, e.lmbda, value, next_value, reward, done)

\* the part shared by forward and value_estimate, after the first check
GaeCore(e, td, params, target_params, mode, vectorized) ==
    IF MissingParams(e, params) THEN Result(td, <<>>, "RuntimeError", <<>>)
    ELSE LET net == ValueNetwork(e, CurrentView(td), params, mode)
             td1 == [td EXCEPT !.state_value = net.view.state_value]
             net2 == ValueNetwork(e, step_mdp(td1), GaeNextParams(params, target_params),
                                  mode)
             cs == <<net.call, net2.call>>
         IN  IF net.raised # "none" THEN Result(td, <<net.call>>, net.raised, <<>>)
             ELSE IF net2.raised # "none" THEN Result(td1, cs, net2.raised, <<>>)
             ELSE IF ~net2.view.state_value.present THEN Result(td1, cs, "KeyError", <<>>)
             ELSE Result(td1, cs, "none",
                         GaeEstimate(e, vectorized, DiscountSeq(e, td), td1.state_value.v,
                                     net2.view.state_value.v, td.reward, td.done))

\* mutant of GAEForwardBody: the value target is rebuilt from the standardized
\* advantage
GAEForwardBodyTargetAfter(e, td, params, target_params, mode) ==
    IF NoTimeDim(td) THEN Result(td, <<>>, "RuntimeError", <<>>)
    ELSE LET r == GaeCore(e, td, params, target_params, mode, e.vectorized)
             adv == IF e.average_gae THEN Standardize(r.value.adv) ELSE r.value.adv
         IN  IF r.raised # "none" THEN Result(r.td, r.calls, r.raised, <<>>)
             ELSE Result(SetOut(SetOut(r.td, e.advantage_key, adv),
                                e.value_target_key, NSeqAdd(adv, r.td.state_value.v)),
                         r.calls, "none", <<>>)

GAEForwardBody(e, td, params, target_params, mode) ==
    IF NoTimeDim(td) THEN Result(td, <<>>, "RuntimeError", <<>>)
    ELSE LET r == GaeCore(e, td, params, target_params, mode, e.vectorized)
             adv == IF e.average_gae THEN Standardize(r.value.adv) ELSE r.value.adv
         IN  IF r.raised # "none" THEN Result(r.td, r.calls, r.raised, <<>>)
             ELSE Result(SetOut(SetOut(r.td, e.advantage_key, adv),
                                e.value_target_key, r.value.value_target),
                         r.calls, "none", <<>>)

GAEValueEstimate(e, td, params, target_params, mode) ==
    IF NoTimeDim(td) THEN Result(td, <<>>, "RuntimeError", <<>>)
    ELSE LET r == GaeCore(e, td, params, target_params, mode, TRUE)
         IN  IF r.raised # "none" THEN Result(r.td, r.calls, r.raised, <<>>)
             ELSE Result(r.td, r.calls, "none", r.value.value_target)

(***************************************************************************)
(* The decorators of forward: _self_set_skip_existing (outermost) and      *)
(* _self_set_grad_enabled.  Each context manager sets the mode on entry    *)
(* and puts the previous mode back on exit, also when the body raises.     *)
(***************************************************************************)
set_grad_enabled_enter(e, prev) == e.differentiable
\* mutant of set_grad_enabled_exit: the previous mode is not put back
set_grad_enabled_stay(prev, inside) == inside
set_grad_enabled_exit(prev, inside) == prev

set_skip_existing_enter(e, prev) ==
    IF e.skip_existing = "None" THEN prev ELSE e.skip_existing = "True"
set_skip_existing_exit(prev, inside) == prev

ForwardBody(e, td, params, target_params, mode) ==
    IF e.kind = "GAE" THEN GAEForwardBody(e, td, params, target_params, mode)
    ELSE TDForwardBody(e, td, params, target_params, mode)

\* estimator.forward(tensordict, params, target_params) called with the
\* ambient modes amb
Forward(e, td, params, target_params, amb) ==
    LET mode == [grad |-> set_grad_enabled_enter(e, amb.grad),
                 skip |-> set_skip_existing_enter(e, amb.skip)]
        r == ForwardBody(e, td, params, target_params, mode)
    IN  [r |-> r, mode |-> mode,
         after |-> [grad |-> set_grad_enabled_exit(amb.grad, mode.grad),
                    skip |-> set_skip_existing_exit(amb.skip, mode.skip)]]

\* estimator.value_estimate(...) called directly: no decorator, the ambient
\* modes stay in force
ValueEstimate(e, td, params, target_params, amb) ==
    [r |-> IF e.kind = "GAE" THEN GAEValueEstimate(e, td, params, target_params, amb)
           ELSE TDValueEstimate(e, td, target_params, amb),
     mode |-> amb, after |-> amb]


(***************************************************************************)
(* The estimators: construction, calls of forward and value_estimate by    *)
(* the training loop, the caller's gradient mode, and the caller taking    *)
(* the result.                                                             *)
(***************************************************************************)
OutKeys == {"advantage", "value_target", "my_advantage", "my_value_target"}
Kinds == {"TD0", "TD1", "TDLambda", "GAE"}
EstGammas == {Half}
Lmbdas == {Zero, Half, One}

\* advantage_key and value_target_key given to the constructor: the defaults
\* or the caller's own
DefaultKeys == <<"advantage", "value_target">>
KeyChoices == {DefaultKeys, <<"my_advantage", "my_value_target">>}

Estimators ==
    {[kind |-> kd, gamma |-> g, lmbda |-> l,
      average_rewards |-> (av /\ kd # "GAE"), average_gae |-> (av /\ kd = "GAE"),
      differentiable |-> df, vectorized |-> vc, skip_existing |-> sk, stateless |-> st,
      advantage_key |-> keys[1], value_target_key |-> keys[2],
      value_key |-> "state_value"] :
        kd \in Kinds, g \in EstGammas, l \in Lmbdas, av \in BOOLEAN, df \in BOOLEAN,
        vc \in BOOLEAN, sk \in {"None", "True", "False"}, st \in BOOLEAN,
        keys \in KeyChoices}

EmptyEstBatch ==
    [batch_dims |-> 1, T |-> 0, reward |-> <<>>, done |-> <<>>, steps_to_next_obs |-> 0,
     state_value |-> NoEntry, next_state_value |-> NoEntry,
     out |-> [key \in OutKeys |-> NoEntry]]

EmptyRet ==
    [entry |-> "none", raised |-> "none", value |-> <<>>, params |-> NoParams,
     target_params |-> NoParams, before |-> EmptyEstBatch,
     mode |-> [grad |-> TRUE, skip |-> FALSE], amb |-> [grad |-> TRUE, skip |-> FALSE]]

PrepopulatedValue == RInt(5)

\* The batches the training loop hands in: one trajectory of T steps (a
\* single transition without time dimension when bd = 0), rewards
\* (i0 + t) mod 3, terminated at step dpos (never when dpos = 0), with or
\* without "steps_to_next_obs" and a pre-populated ("next", "state_value").
EstBatch(bd, T, i0, dpos, k, prepop) ==
    [batch_dims |-> bd, T |-> T,
     reward |-> [t \in 1 .. T |-> NOf(RInt((i0 + t) % 3))],
     done |-> [t \in 1 .. T |-> t = dpos],
     steps_to_next_obs |-> k,
     state_value |-> NoEntry,
     next_state_value |-> IF prepop THEN Entry([t \in 1 .. T |-> NOf(PrepopulatedValue)])
                          ELSE NoEntry,
     out |-> [key \in OutKeys |-> NoEntry]]

EstBatches ==
    {EstBatch(bd, T, i0, dpos, k, prepop) :
        bd \in {0, 1}, T \in 1 .. MaxT, i0 \in {0, 1}, dpos \in 0 .. MaxT,
        k \in StepsValues, prepop \in BOOLEAN}

ValidBatch(td) == td.done \in [1 .. td.T -> BOOLEAN] /\ (td.batch_dims = 0 => td.T = 1)
                  /\ \E t \in 0 .. td.T : \A u \in 1 .. td.T : td.done[u] <=> (u = t)

ParamsChoices(e) == IF e.stateless THEN {NoParams, OnlineParams} ELSE {NoParams}
TargetChoices(e) == IF e.stateless THEN {NoParams, TargetParams} ELSE {NoParams}

InitEst ==
    /\ pc = "idle"
    /\ est \in Estimators
    /\ (est.kind \in {"TD0", "TD1"} => est.vectorized)
    /\ est.lmbda = Half
    /\ <<est.advantage_key, est.value_target_key>> = DefaultKeys
    /\ tensordict = EmptyEstBatch
    /\ grad_enabled \in BOOLEAN
    /\ skip_existing_mode \in BOOLEAN
    /\ calls = <<>>
    /\ ret = EmptyRet
    /\ loss = NoLoss
    /\ input_tensordict = EmptyBatch
    /\ fwd = EmptyFwd

\* The estimators in all their numeric configurations: every trace decay,
\* both implementations, default and custom output keys, called by a
\* training loop that leaves gradient tracking on and builds the estimators
\* with differentiable = False and skip_existing = None.
InitNum ==
    /\ pc = "idle"
    /\ est \in Estimators
    /\ (est.kind \in {"TD0", "TD1"} => (est.vectorized /\ est.lmbda = Half))
    /\ ~est.differentiable
    /\ est.skip_existing = "None"
    /\ tensordict = EmptyEstBatch
    /\ grad_enabled = TRUE
    /\ skip_existing_mode \in BOOLEAN
    /\ calls = <<>>
    /\ ret = EmptyRet
    /\ loss = NoLoss
    /\ input_tensordict = EmptyBatch
    /\ fwd = EmptyFwd

Ambient == [grad |-> grad_enabled, skip |-> skip_existing_mode]

\* mutant of Buffers: the exponentiated discount is stored in the module
BuffersExponentiated(e, td) == [e EXCEPT !.gamma = DiscountSeq(e, td)[1]]
\* the module after a call: gamma and lmbda are read into locals and
\* gamma ** steps_to_next_obs rebinds the local (lines 327-330, 502-505,
\* 685-690, 868-871, 948-951); the registered buffers are not assigned
Buffers(e, td) == e

Returned(entry, c, td, params, target_params) ==
    /\ tensordict' = c.r.td
    /\ calls' = c.r.calls
    /\ ret' = [entry |-> entry, raised |-> c.r.raised, value |-> c.r.value,
               params |-> params, target_params |-> target_params, before |-> td,
               mode |-> c.mode, amb |-> Ambient]
    /\ grad_enabled' = c.after.grad
    /\ skip_existing_mode' = c.after.skip
    /\ pc' = "returned"
    /\ est' = Buffers(est, td)
    /\ UNCHANGED <<loss, input_tensordict, fwd>>

EstimatorForward ==
    /\ pc = "idle"
    /\ \E td \in EstBatches, params \in ParamsChoices(est),
          target_params \in TargetChoices(est) :
          /\ ValidBatch(td)
          /\ Returned("forward", Forward(est, td, params, target_params, Ambient),
                      td, params, target_params)

EstimatorValueEstimate ==
    /\ pc = "idle"
    /\ \E td \in EstBatches,
          params \in (IF est.kind = "GAE" THEN ParamsChoices(est) ELSE {NoParams}),
          target_params \in TargetChoices(est) :
          /\ ValidBatch(td)
          /\ Returned("value_estimate",
                      ValueEstimate(est, td, params, target_params, Ambient),
                      td, params, target_params)

EstReturn ==
    /\ pc = "returned"
    /\ pc' = "idle"
    /\ tensordict' = EmptyEstBatch
    /\ calls' = <<>>
    /\ ret' = EmptyRet
    /\ UNCHANGED <<est, loss, input_tensordict, fwd, grad_enabled, skip_existing_mode>>

Next == EstimatorForward \/ EstimatorValueEstimate \/ EstReturn

Spec == InitEst /\ [][Next]_vars

SpecNum == InitNum /\ [][Next]_vars


(***************************************************************************)
(* Properties of the value estimators.                                     *)
(***************************************************************************)
ForwardReturned == pc = "returned" /\ ret.entry = "forward"
ForwardDone == ForwardReturned /\ ret.raised = "none"
ValueEstimateReturned == pc = "returned" /\ ret.entry = "value_estimate"

WrittenAdvantage == tensordict.out[AdvantageKey(est)].v
WrittenValueTarget == tensordict.out[ValueTargetKey(est)].v

\* C5 as stated: for every variant and every setting of its flags, the
\* advantage written by forward is the written value target minus the
\* current-step value prediction, element by element
C5_AdvantageIsTargetMinusValue ==
    ForwardDone => WrittenAdvantage = NSeqSub(WrittenValueTarget, tensordict.state_value.v)

\* C5 as amended: this holds for TD0, TD1 and TDLambda (average_rewards on or
\* off) and for GAE with average_gae off; with average_gae on GAE writes the
\* standardized (value target - value)
C5_AdvantageAmended ==
    ForwardDone =>
        LET diff == NSeqSub(WrittenValueTarget, tensordict.state_value.v)
        IN  IF est.average_gae THEN WrittenAdvantage = Standardize(diff)
            ELSE WrittenAdvantage = diff

\* a forward call on standardized rewards over several steps
C5_Witness ==
    /\ ForwardDone
    /\ est.kind = "TDLambda"
    /\ est.average_rewards
    /\ tensordict.T >= 2
    /\ \E t \in 1 .. tensordict.T :
          /\ WrittenAdvantage[t].k = "fin" /\ WrittenAdvantage[t].u # Zero
          /\ tensordict.state_value.v[t] # NOf(Zero)
          /\ WrittenAdvantage[t] # WrittenValueTarget[t]

\* C6: forward of a parametric (stateless) value network without params
\* raises RuntimeError before the network is invoked and before any
\* advantage or value target is written
C6_MissingParamsRaises ==
    (ForwardReturned /\ est.stateless /\ ~ret.params.given) =>
        /\ ret.raised = "RuntimeError"
        /\ calls = <<>>
        /\ tensordict = ret.before
        /\ \A key \in OutKeys : ~tensordict.out[key].present

\* the missing-params error on a batch that passes the time-dimension check
C6_Witness ==
    /\ ForwardReturned
    /\ est.stateless /\ ~ret.params.given
    /\ ret.before.batch_dims >= 1
    /\ ret.target_params.given
    /\ ret.raised = "RuntimeError"

FromPrepopulated ==
    ReturnEstimate(est, DiscountSeq(est, ret.before), ret.before.next_state_value.v,
                   tensordict.reward, ret.before.done)

\* C8: with ("next", value_key) already in the batch, value_estimate of an
\* estimator built with default options uses it as next_value and does not
\* run the value network on the shifted batch
C8_PrepopulatedNextValueUsed ==
    (/\ ValueEstimateReturned
     /\ est.kind # "GAE"
     /\ est.skip_existing = "None" /\ ~est.average_rewards /\ ~est.differentiable
     /\ est.vectorized
     /\ ret.before.batch_dims >= 1
     /\ ret.before.next_state_value.present
     /\ ret.raised = "none")
        => /\ \A i \in DOMAIN calls : calls[i].on = "step_td" => ~calls[i].computed
           /\ ret.value = FromPrepopulated

\* C9: inside forward gradient tracking is on exactly when differentiable is
\* set, whatever the caller's mode; afterwards the caller's mode is back,
\* whether the call returned or raised
C9_GradMode ==
    ForwardReturned =>
        /\ ret.mode.grad = est.differentiable
        /\ \A i \in DOMAIN calls : calls[i].grad = est.differentiable
        /\ grad_enabled = ret.amb.grad

\* a forward call that ran the network twice in the mode opposite to the caller's
C9_Witness ==
    /\ ForwardDone
    /\ est.differentiable # ret.amb.grad
    /\ Len(calls) = 2
    /\ \A i \in DOMAIN calls : calls[i].computed /\ calls[i].grad # grad_enabled

\* C10: forward and value_estimate of every variant raise on a batch without
\* time dimension, before the value network is invoked
C10_NoTimeDimRaises ==
    (pc = "returned" /\ ret.before.batch_dims = 0) =>
        (ret.raised # "none" /\ calls = <<>>)

\* the next-step values a value_estimate call of TD0/TD1/TDLambda worked
\* with: those the network computed on the shifted batch, or the ones the
\* batch already held when the network was skipped
NextValueUsed ==
    IF calls[1].computed
    THEN [t \in 1 .. ret.before.T |->
            NOf(NetValue(IF calls[1].params.given THEN calls[1].params.w ELSE 0, "next", t))]
    ELSE ret.before.next_state_value.v

\* C11: with average_rewards on, value_estimate of TD0/TD1/TDLambda replaces
\* the batch's ("next", "reward") by (reward - mean) / max(std, 1e-4) and
\* estimates from those rewards; with average_rewards off the reward entry
\* is left as it was
C11_RewardStandardization ==
    (ValueEstimateReturned /\ est.kind # "GAE") =>
        /\ est.average_rewards => tensordict.reward = Standardize(ret.before.reward)
        /\ ~est.average_rewards => tensordict.reward = ret.before.reward
        /\ ret.raised = "none" =>
              ret.value = ReturnEstimate(est, DiscountSeq(est, ret.before), NextValueUsed,
                                         tensordict.reward, ret.before.done)

\* a value_estimate call that standardized two different rewards
C11_Witness ==
    /\ ValueEstimateReturned /\ est.kind = "TD1" /\ est.average_rewards
    /\ ret.raised = "none"
    /\ ret.before.T >= 2
    /\ tensordict.reward # ret.before.reward
    /\ \E t \in 1 .. ret.before.T : tensordict.reward[t].u # Zero /\ ret.value[t].u # Zero

\* the estimator of the call with the other implementation selected
OtherImplementation == [est EXCEPT !.vectorized = ~est.vectorized]

AsTD0 == [est EXCEPT !.kind = "TD0"]

\* reward[t] + gamma^k * (1 - done[t]) * next_value[t], k defaulting to 1
OneStepTarget(t) ==
    NAdd(tensordict.reward[t],
         NScale(RMul(RPow(est.gamma, IF ret.before.steps_to_next_obs = 0 THEN 1
                                     ELSE ret.before.steps_to_next_obs),
                     NotDone(ret.before.done[t])),
                NextValueUsed[t]))

\* C13: with lmbda = 0, TDLambdaEstimator.value_estimate returns at every
\* step the target TD0Estimator.value_estimate returns for the same gamma
\* and batch, reward[t] + gamma^k * (1 - done[t]) * next_value[t]
C13_LambdaZeroIsTD0 ==
    (ValueEstimateReturned /\ est.kind = "TDLambda" /\ est.lmbda = Zero) =>
        /\ LET td0 == ValueEstimate(AsTD0, ret.before, ret.params, ret.target_params,
                                    ret.amb).r
           IN  td0.value = ret.value /\ td0.raised = ret.raised
        /\ ret.raised = "none" =>
              \A t \in 1 .. ret.before.T : ret.value[t] = OneStepTarget(t)

\* a two-step call with lmbda = 0, no termination, a discount raised to
\* steps_to_next_obs and a next value that counts
C13_Witness ==
    /\ ValueEstimateReturned /\ est.kind = "TDLambda" /\ est.lmbda = Zero
    /\ ret.raised = "none"
    /\ ret.before.T >= 2 /\ \A t \in 1 .. ret.before.T : ~ret.before.done[t]
    /\ ret.before.steps_to_next_obs > 1
    /\ \E t \in 1 .. ret.before.T : ret.value[t] # tensordict.reward[t]

\* the same estimator as a TD1Estimator with the same gamma
AsTD1 == [est EXCEPT !.kind = "TD1", !.vectorized = TRUE]

NoIntermediateTermination(td) == \A t \in 1 .. (td.T - 1) : ~td.done[t]

\* C14: on a batch without intermediate termination, the target of
\* TDLambdaEstimator.value_estimate with lmbda = 1 equals the TD(1) target
\* of TD1Estimator.value_estimate at every step, the last one included
C14_LambdaOneIsTD1 ==
    (/\ ValueEstimateReturned /\ est.kind = "TDLambda" /\ est.lmbda = One
     /\ ret.before.batch_dims >= 1
     /\ NoIntermediateTermination(ret.before)
     /\ ret.raised = "none")
        => ret.value = ValueEstimate(AsTD1, ret.before, ret.params, ret.target_params,
                                     ret.amb).r.value

\* the value target a returned call produced: the value returned by
\* value_estimate, the entry written by forward
ProducedTarget == IF ret.entry = "forward" THEN WrittenValueTarget ELSE ret.value

\* C15: on a single-step batch with done = true the value target of TD0,
\* TD1, TDLambda and GAE is the reward alone (the reward entry the call
\* leaves in the batch, which is the caller's reward unless average_rewards
\* standardized it)
C15_TerminationMasking ==
    (/\ pc = "returned" /\ ret.raised = "none"
     /\ ret.before.T = 1 /\ ret.before.done[1])
        => /\ ProducedTarget = tensordict.reward
           /\ ~est.average_rewards => ProducedTarget = ret.before.reward

\* a terminated single step whose bootstrap value is not zero
C15_Witness ==
    /\ ValueEstimateReturned /\ est.kind = "TDLambda" /\ est.lmbda = Half
    /\ ret.raised = "none"
    /\ ret.before.batch_dims = 1
    /\ ret.before.T = 1 /\ ret.before.done[1]
    /\ ret.before.steps_to_next_obs > 1
    /\ NextValueUsed[1] # NOf(Zero)
    /\ ret.value[1] # NOf(Zero)

\* batches that agree with td on every entry of the steps up to d and hold
\* other rewards, done flags and pre-populated next values after d
TailVariants(td, d) ==
    {[td EXCEPT
        !.reward = [t \in 1 .. td.T |-> IF t > d THEN NOf(RInt(r)) ELSE td.reward[t]],
        !.done = [t \in 1 .. td.T |-> IF t > d THEN dn ELSE td.done[t]],
        !.next_state_value =
            IF td.next_state_value.present
            THEN Entry([t \in 1 .. td.T |->
                           IF t > d THEN NOf(RInt(nv)) ELSE td.next_state_value.v[t]])
            ELSE td.next_state_value] :
        r \in {0, 7}, dn \in BOOLEAN, nv \in {5, 9}}

\* the value target the returned call produces on another batch
TargetOn(td) ==
    IF ret.entry = "forward"
    THEN Forward(est, td, ret.params, ret.target_params, ret.amb).r.td
             .out[ValueTargetKey(est)].v
    ELSE ValueEstimate(est, td, ret.params, ret.target_params, ret.amb).r.value

TerminatedBefore(d) ==
    /\ pc = "returned" /\ ret.raised = "none"
    /\ est.kind \in {"TD1", "TDLambda", "GAE"}
    /\ d < ret.before.T /\ ret.before.done[d]

\* two numbers of two calls (with reward variances vx and vy) that are
\* certainly different: c + u / sigma compared with each call's own sigma
Differs(x, vx, y, vy) ==
    IF x.k # y.k THEN TRUE
    ELSE IF x.k = "nan" THEN FALSE
    ELSE IF x.u = Zero /\ y.u = Zero THEN x.c # y.c
    ELSE /\ x.c = y.c
         /\ \/ RLt(x.u, Zero) # RLt(y.u, Zero)
            \/ RMul(RMul(x.u, x.u), vy) # RMul(RMul(y.u, y.u), vx)

\* C16 as stated: for TD1, TDLambda and GAE, when done[d] holds the value
\* target at the steps t <= d is the same on every batch that agrees on the
\* steps up to d, whatever the batch holds after d
C16_NoFlowPastTermination ==
    \A d \in 1 .. MaxT :
        TerminatedBefore(d) =>
            \A other \in TailVariants(ret.before, d) : \A t \in 1 .. d :
                ~Differs(TargetOn(other)[t], Variance(other.reward),
                         ProducedTarget[t], Variance(ret.before.reward))

\* C16 as amended: the same, for estimators that do not standardize the
\* rewards over the whole batch (average_rewards off)
C16_NoFlowAmended ==
    \A d \in 1 .. MaxT :
        (TerminatedBefore(d) /\ ~est.average_rewards) =>
            \A other \in TailVariants(ret.before, d) : \A t \in 1 .. d :
                TargetOn(other)[t] = ProducedTarget[t]

\* a terminated first step followed by a step whose target changes with the
\* batch's tail, while the first step's target carries a discounted part
C16_Witness ==
    /\ TerminatedBefore(1) /\ ~est.average_rewards
    /\ est.kind = "TDLambda" /\ est.lmbda = One
    /\ \E other \in TailVariants(ret.before, 1) :
          TargetOn(other)[ret.before.T] # ProducedTarget[ret.before.T]

(***************************************************************************)
(* Properties of the configuration of the losses.                          *)
(***************************************************************************)
Configured == pc = "configured"

\* C17: DQNLoss.make_value_estimator raises NotImplementedError for GAE and
\* for an unknown kind, DistributionalDQNLoss.make_value_estimator for every
\* kind but TD0; the other requests pass, and the error comes from
\* make_value_estimator itself, forward never raises it
C17_UnsupportedKindsRejected ==
    /\ (Configured /\ loss.cls = "DQNLoss") =>
          /\ loss.value_type \in {"GAE", UnknownValueType}
                => fwd.raised = "NotImplementedError"
          /\ loss.value_type \in {"TD0", "TD1", "TDLambda"} => fwd.raised = "none"
    /\ (Configured /\ loss.cls = "DistributionalDQNLoss") =>
          /\ loss.value_type \in {"TD1", "GAE", "TDLambda", UnknownValueType}
                => fwd.raised = "NotImplementedError"
          /\ loss.value_type = "TD0" => fwd.raised = "none"
    /\ pc = "returned" => fwd.raised # "NotImplementedError"

\* the distributional loss refusing TDLambda
C17_Witness ==
    /\ Configured /\ loss.cls = "DistributionalDQNLoss"
    /\ loss.value_type = "TDLambda"
    /\ fwd.raised = "NotImplementedError"

\* C18: forward of every estimator writes the advantage at advantage_key and
\* the value target at value_target_key, the keys given to the constructor,
\* and at no other output key
C18_OutputKeys ==
    ForwardDone =>
        /\ tensordict.out[est.advantage_key].present
        /\ tensordict.out[est.value_target_key].present
        /\ \A key \in OutKeys \ {est.advantage_key, est.value_target_key} :
              ~tensordict.out[key].present

\* C19: DistributionalDQNLoss.forward on a batch whose batch_dims is not 1
\* raises RuntimeError before the value network is invoked
C19_OneBatchDimension ==
    (pc = "returned" /\ input_tensordict.batch_dims # 1) =>
        (fwd.raised = "RuntimeError" /\ calls = <<>>)

\* the batch as the training loop handed it in: no priority entry yet
HandedIn == [input_tensordict EXCEPT !.td_error = NoEntry]

LowDecremented(n, z) == fwd.low[n][z] = RFloor(fwd.b[n][z]) - 1
UpIncremented(n, z) == fwd.up[n][z] = RCeil(fwd.b[n][z]) + 1
InnerAtom(n, z) ==
    IsIntegral(fwd.b[n][z]) /\ fwd.b[n][z][1] \in 1 .. (atoms - 2)

\* C21 as stated: for an element with b integral and 0 < b < Z-1 both the
\* decrement of low and the increment of up apply
C21_BothAdjustments ==
    Projected =>
        \A n \in FwdRows : \A z \in AtomIdx :
            InnerAtom(n, z) => (LowDecremented(n, z) /\ UpIncremented(n, z))

\* C21: the increment of up is decided on the already decremented low, so an
\* element with b integral gets exactly one adjustment: the decrement of low
\* where b > 0 (low = b - 1, up = b), the increment of up where b = 0
\* (low = 0, up = 1); an element with b not integral gets none
C21_OneAdjustment ==
    Projected =>
        \A n \in FwdRows : \A z \in AtomIdx :
            /\ (IsIntegral(fwd.b[n][z]) /\ RLt(Zero, fwd.b[n][z]))
                  => (LowDecremented(n, z) /\ ~UpIncremented(n, z))
            /\ fwd.b[n][z] = Zero
                  => (~LowDecremented(n, z) /\ UpIncremented(n, z))
            /\ ~IsIntegral(fwd.b[n][z])
                  => (~LowDecremented(n, z) /\ ~UpIncremented(n, z))

\* a projected batch with an element on an inner atom, one on the first atom
\* and one on the last atom
C21_Witness ==
    /\ Projected
    /\ \E n \in FwdRows, z \in AtomIdx :
          InnerAtom(n, z) /\ RLt(Zero, fwd.pns_a[n][z])
    /\ \E n \in FwdRows, z \in AtomIdx : fwd.b[n][z] = Zero
    /\ \E n \in FwdRows, z \in AtomIdx : fwd.b[n][z] = RInt(atoms - 1)

(***************************************************************************)
(* GAE with "steps_to_next_obs" in the batch.                              *)
(***************************************************************************)
GaeDone == ForwardDone /\ est.kind = "GAE"
GaeSteps == ret.before.steps_to_next_obs
\* the next-step values of a GAE.forward call (its second invocation)
GaeNextValue ==
    IF calls[2].computed
    THEN [t \in 1 .. ret.before.T |->
            NOf(NetValue(IF calls[2].params.given THEN calls[2].params.w ELSE 0, "next", t))]
    ELSE ret.before.next_state_value.v
\* the unstandardized advantage behind the written value target
GaeAdvantage(t) == NSub(WrittenValueTarget[t], tensordict.state_value.v[t])
\* reward[t] + gamma^k * (1 - done[t]) * next_value[t] - value[t]
GaeResidual(t) ==
    NSub(NAdd(ret.before.reward[t],
              NScale(RMul(RPow(est.gamma, GaeSteps), NotDone(ret.before.done[t])),
                     GaeNextValue[t])),
         tensordict.state_value.v[t])
\* A[t] = delta[t] + g * lmbda * (1 - done[t]) * A[t+1], with A[T+1] = 0
GaeRecursion(g) ==
    \A t \in 1 .. ret.before.T :
        GaeAdvantage(t) =
            NAdd(GaeResidual(t),
                 IF t = ret.before.T THEN NOf(Zero)
                 ELSE NScale(RMul(RMul(g, est.lmbda), NotDone(ret.before.done[t])),
                             GaeAdvantage(t + 1)))

\* C22 as stated: with steps_to_next_obs = k > 1 the TD-residual discounts the
\* next value by gamma^k while the backward recursion carries A[t+1] with the
\* unexponentiated gamma * lmbda * (1 - done[t])
C22_RecursionPlainGamma ==
    (GaeDone /\ GaeSteps > 1) => GaeRecursion(est.gamma)

\* C22: with steps_to_next_obs = k > 1 the TD-residual discounts the next
\* value by gamma^k and the backward recursion carries A[t+1] with the same
\* exponentiated discount, gamma^k * lmbda * (1 - done[t])
C22_RecursionDiscount ==
    (GaeDone /\ GaeSteps > 1) => GaeRecursion(RPow(est.gamma, GaeSteps))

\* a GAE call with k = 2 over two steps whose first advantage draws on a
\* second advantage that is not zero
C22_Witness ==
    /\ GaeDone /\ GaeSteps = 2
    /\ ret.before.T >= 2 /\ ~ret.before.done[1]
    /\ est.lmbda # Zero
    /\ GaeAdvantage(2) # NOf(Zero)
    /\ GaeAdvantage(1) # GaeResidual(1)

\* the estimator of the call with average_gae switched
OtherAverageGae == [est EXCEPT !.average_gae = ~est.average_gae]

\* C23: average_gae standardizes the advantage after the recursion: the call
\* with the flag switched has the same outcome and leaves the same batch but
\* for the advantage entry; the written value target is the unstandardized
\* advantage plus the value, and with the flag on the written advantage is
\* the standardized (value target - value)
C23_AverageGaeKeepsTarget ==
    (ForwardReturned /\ est.kind = "GAE") =>
        LET other == Forward(OtherAverageGae, ret.before, ret.params, ret.target_params,
                             ret.amb).r
        IN  /\ other.raised = ret.raised
            /\ [other.td EXCEPT !.out[AdvantageKey(est)] = NoEntry]
                  = [tensordict EXCEPT !.out[AdvantageKey(est)] = NoEntry]
            /\ ret.raised = "none" =>
                  /\ other.td.out[ValueTargetKey(est)] = Entry(WrittenValueTarget)
                  /\ LET unstandardized ==
                             IF est.average_gae THEN other.td.out[AdvantageKey(est)].v
                             ELSE WrittenAdvantage
                     IN  /\ WrittenValueTarget
                               = NSeqAdd(unstandardized, tensordict.state_value.v)
                         /\ est.average_gae
                               => WrittenAdvantage = Standardize(unstandardized)

\* a call with average_gae on over two steps whose written advantage is a
\* number and is not the value target minus the value
C23_Witness ==
    /\ ForwardDone /\ est.kind = "GAE" /\ est.average_gae
    /\ ret.before.T >= 2
    /\ \A t \in 1 .. ret.before.T : WrittenAdvantage[t].k = "fin"
    /\ WrittenAdvantage # NSeqSub(WrittenValueTarget, tensordict.state_value.v)
    /\ Forward(OtherAverageGae, ret.before, ret.params, ret.target_params,
               ret.amb).r.td.out[AdvantageKey(est)].v # WrittenAdvantage

(***************************************************************************)
(* The two conventions of action log-probability extraction.               *)
(***************************************************************************)
\* the log-probabilities of the online call on the batch of the last call
OnlineLogSoftmax ==
    DistValueNetwork(InputView(input_tensordict), loss.value_network_params,
                     loss.action_space, 1).action_value
\* the index a_n of the action taken in row n
TakenAction(n) ==
    IF loss.action_space = "categorical" THEN input_tensordict.action[n]
    ELSE ArgMax(input_tensordict.action[n])
\* the [N, Z] tensor whose entry (n, z) is action_log_softmax[n, z, a_n]
ExpectedLogPs ==
    [n \in FwdRows |-> [z \in AtomIdx |-> OnlineLogSoftmax[n][z][TakenAction(n)]]]

\* C24: for the actions of a batch given as one-hot vectors, as integers and
\* as integers with a trailing dimension of size 1, _log_ps_a_default and
\* _log_ps_a_categorical both return the tensor whose entry (n, z) is
\* action_log_softmax[n, z, a_n]; forward, which uses the one of its action
\* space, does not fail at the extraction
C24_ConventionsAgree ==
    (pc = "returned" /\ input_tensordict.batch_dims = 1) =>
        LET N == input_tensordict.N
            hot == [n \in FwdRows |-> OneHot(TakenAction(n))]
            category == [n \in FwdRows |-> TakenAction(n)]
        IN  /\ ViewOk(hot, OnlineLogSoftmax, N)
            /\ _log_ps_a_default(hot, OnlineLogSoftmax, N) = ExpectedLogPs
            /\ \A action_shape \in {<<N>>, <<N, 1>>} :
                  /\ GatherOk(action_shape)
                  /\ _log_ps_a_categorical(category, OnlineLogSoftmax, N) = ExpectedLogPs
            /\ ~(fwd.raised = "RuntimeError" /\ Len(calls) = 1)
            /\ fwd.raised = "none" => fwd.log_ps_a = ExpectedLogPs

\* a step of the module keeps gamma and lmbda, and a value_estimate of TD0
\* on a batch without "steps_to_next_obs" discounts by the gamma the module
\* held before the call
HyperparametersKept ==
    /\ est'.gamma = est.gamma
    /\ est'.lmbda = est.lmbda
    /\ (/\ pc' = "returned" /\ ret'.entry = "value_estimate" /\ ret'.raised = "none"
        /\ est.kind = "TD0" /\ ~est.average_rewards
        /\ ret'.before.steps_to_next_obs = 0)
          => \A t \in 1 .. ret'.before.T :
                ret'.value[t] =
                    NAdd(ret'.before.reward[t],
                         NScale(RMul(est.gamma, NotDone(ret'.before.done[t])),
                                IF calls'[1].computed
                                THEN NOf(NetValue(IF calls'[1].params.given
                                                  THEN calls'[1].params.w ELSE 0,
                                                  "next", t))
                                ELSE ret'.before.next_state_value.v[t]))

\* C25: estimator calls leave the hyperparameters alone: over any sequence of
\* forward and value_estimate calls, with or without steps_to_next_obs in the
\* batch, gamma and lmbda stay what they were at construction, so a call on a
\* batch without steps_to_next_obs discounts by gamma
C25_HyperparametersStateless == [][HyperparametersKept]_vars

\* a call that discounted by gamma^2 has returned and the module still holds
\* the gamma of its construction
C25_Witness ==
    /\ pc = "returned" /\ ret.raised = "none"
    /\ ret.before.steps_to_next_obs = 2
    /\ est.gamma \in EstGammas
    /\ DiscountSeq(est, ret.before)[1] # est.gamma

\* the batches on which the value network was invoked, in order
InvokedOn == [i \in DOMAIN calls |-> calls[i].on]
IsPrefix(xs, ys) == Len(xs) <= Len(ys) /\ xs = SubSeq(ys, 1, Len(xs))

XLe(x, q) == x.k = "ninf" \/ (x.k = "fin" /\ RLe(x.q, q))
XGe(x, q) == x.k = "pinf" \/ (x.k = "fin" /\ RLe(q, x.q))
\* the mass of row n lies on the atoms of js only
MassWithin(n, js) == \A i \in AtomIdx \ js : fwd.m[n][i] = Zero

\* C27: in a row with done set every Tz[n, z] is clamp(reward[n], Vmin, Vmax),
\* whatever the discount and the support; the mass of the row lands on at
\* most two adjacent atoms that bracket this value, and on the first (last)
\* atom alone when reward[n] <= Vmin (>= Vmax)
C27_TerminalRows ==
    Projected =>
        \A n \in FwdRows :
            input_tensordict.done[n] =>
                LET r == input_tensordict.reward[n]
                    v == XClamp(r, Vmin, Vmax)
                IN  /\ \A z \in AtomIdx : fwd.Tz[n][z] = v
                    /\ \E j \in 0 .. (atoms - 2) :
                          /\ MassWithin(n, {j, j + 1})
                          /\ RLe(support[j], v.q) /\ RLe(v.q, support[j + 1])
                    /\ XLe(r, Vmin) => MassWithin(n, {0})
                    /\ XGe(r, Vmax) => MassWithin(n, {atoms - 1})
                    /\ RowSum(fwd.m[n], atoms - 1) = RowSum(fwd.pns_a[n], atoms - 1)

\* a projected batch with a terminal row whose reward lies strictly between
\* two atoms and puts mass on both, under a discount and a support that would
\* otherwise spread the row
C27_Witness ==
    /\ Projected
    /\ input_tensordict.steps_to_next_obs = 2
    /\ \E n \in FwdRows :
          /\ input_tensordict.done[n]
          /\ input_tensordict.reward[n] = XFin(Half)
          /\ \E j \in 0 .. (atoms - 2) :
                RLt(Zero, fwd.m[n][j]) /\ RLt(Zero, fwd.m[n][j + 1])
          /\ \E z \in AtomIdx :
                XAdd(input_tensordict.reward[n],
                     XMul(Discount(loss, input_tensordict), XFin(support[z])))
                    # fwd.Tz_raw[n][z]

(***************************************************************************)
(* The scatter indices of the projection.                                  *)
(***************************************************************************)
\* the projection was reached: the call got past the finiteness test
ProjectionRan == pc = "returned" /\ fwd.low # <<>>
RowCells(n) == offset(n) .. (offset(n) + atoms - 1)
\* what the elements of row n add to atom j of that row
RECURSIVE RowContribution(_, _, _)
RowContribution(n, j, z) ==
    IF z < 0 THEN Zero
    ELSE RAdd(RowContribution(n, j, z - 1),
              RAdd(IF fwd.low[n][z] = j
                   THEN LowWeight(fwd.pns_a[n][z], fwd.up[n][z], fwd.b[n][z]) ELSE Zero,
                   IF fwd.up[n][z] = j
                   THEN UpWeight(fwd.pns_a[n][z], fwd.b[n][z], fwd.low[n][z]) ELSE Zero))

\* C28: after the degenerate-bin step every element has 0 <= low < up <= Z-1
\* and up - low = 1; the flat indices low + n*Z and up + n*Z lie in row n, the
\* scatter never fails on an index, and a cell of row n holds what the
\* elements of row n added to it and nothing else
C28_IndexInvariant ==
    ProjectionRan =>
        /\ fwd.raised = "none"
        /\ \A n \in FwdRows : \A z \in AtomIdx :
              /\ 0 <= fwd.low[n][z] /\ fwd.low[n][z] < fwd.up[n][z]
              /\ fwd.up[n][z] <= atoms - 1
              /\ fwd.up[n][z] - fwd.low[n][z] = 1
              /\ fwd.low[n][z] + offset(n) \in RowCells(n)
              /\ fwd.up[n][z] + offset(n) \in RowCells(n)
        /\ \A n \in FwdRows : \A j \in AtomIdx :
              fwd.m[n][j] = RowContribution(n, j, atoms - 1)

\* a projection of two rows from finite rewards whose second row has an
\* element on the first atom, next to the cells of the first row, and an
\* element on the last atom
C28_Witness ==
    /\ ProjectionRan /\ fwd.raised = "none"
    /\ input_tensordict.N = 2
    /\ \A n \in FwdRows : XIsFinite(input_tensordict.reward[n])
    /\ \E z \in AtomIdx : fwd.b[2][z] = Zero /\ RLt(Zero, fwd.pns_a[2][z])
    /\ \E z \in AtomIdx : fwd.b[2][z] = RInt(atoms - 1) /\ RLt(Zero, fwd.pns_a[2][z])
    /\ \A z \in AtomIdx : fwd.b[1][z] = Zero

(***************************************************************************)
(* Expected value of the projected distribution.                           *)
(***************************************************************************)
\* sum over j <= z of m[n, j] * (Vmin + j * delta_z)
RECURSIVE ProjectedMean(_, _)
ProjectedMean(n, z) ==
    IF z < 0 THEN Zero
    ELSE RAdd(ProjectedMean(n, z - 1),
              RMul(fwd.m[n][z], RAdd(Vmin, RMul(RInt(z), delta_z))))
\* sum over j <= z of pns_a[n, j] * clamp(Tz[n, j], Vmin, Vmax)
RECURSIVE ShiftedMean(_, _)
ShiftedMean(n, z) ==
    IF z < 0 THEN Zero
    ELSE RAdd(ShiftedMean(n, z - 1),
              RMul(fwd.pns_a[n][z], XClamp(fwd.Tz_raw[n][z], Vmin, Vmax).q))

\* C29: mean preservation: for the uniformly spaced support every row of the
\* projection has the expected value of the clamped Bellman-shifted
\* distribution, sum_j m[n,j] (Vmin + j delta_z) = sum_z pns_a[n,z] clamp(Tz[n,z])
C29_MeanPreservation ==
    Projected =>
        \A n \in FwdRows : ProjectedMean(n, atoms - 1) = ShiftedMean(n, atoms - 1)

\* a projected row with an element between two atoms, a clamped element and
\* an element on an atom, whose expected value is not zero
C29_Witness ==
    /\ Projected
    /\ \E n \in FwdRows :
          /\ \E z \in AtomIdx : ~IsIntegral(fwd.b[n][z]) /\ RLt(Zero, fwd.pns_a[n][z])
          /\ \E z \in AtomIdx : fwd.Tz[n][z] # fwd.Tz_raw[n][z]
          /\ \E z \in AtomIdx : IsIntegral(fwd.b[n][z])
          /\ ShiftedMean(n, atoms - 1) # Zero
          /\ \A j \in 1 .. (atoms - 1) :
                support[j] = RAdd(support[j - 1], delta_z)

\* value_type names the installed value estimator (none before the first
\* successful request)
ValueTypeConsistent(l) ==
    \/ l.value_type = "unset" /\ l.value_estimator = "none"
    \/ l.value_type = l.value_estimator

\* C30: every make_value_estimator call on a DQNLoss, accepted or rejected,
\* leaves value_type naming the installed value estimator, and a rejected
\* request changes neither of the two
ConfigurationKept ==
    (pc' = "configured" /\ loss.cls = "DQNLoss") =>
        /\ ValueTypeConsistent(loss')
        /\ fwd'.raised = "NotImplementedError" => loss' = loss
C30_ConfigurationConsistency == [][ConfigurationKept]_vars

====
